---- MODULE Spec2Model ----
(***************************************************************************)
(* Model of shell_with_default: ClickGroupWithDefault (a click group that  *)
(* falls back on a default command) and ClickShellWithDefault (the         *)
(* interactive loop whose unmatched-line hook resubmits the line to the    *)
(* default command).                                                       *)
(*                                                                         *)
(* A Python str is a sequence of atoms; an atom is a run of characters     *)
(* that is either made of identifier characters only ("a", "quit"), or is  *)
(* the punctuation character "." or the blank " ".  A list of str (argv,   *)
(* the args of a command) is a sequence of such sequences.                 *)
(* The click context is the one click builds by default                    *)
(* (resilient_parsing False, no token_normalize_func).                     *)
(***************************************************************************)
EXTENDS Naturals, Sequences, FiniteSets

\* ------------------------------------------------------------------ bounds
MaxDecls == 2
MaxLineLen == 3
MaxRecursion == 2

\* ----------------------------------------------------------------- strings
IdentAtoms == {"a", "quit"}
Atoms == IdentAtoms \cup {".", " "}

RECURSIVE SeqsUpTo(_, _)
SeqsUpTo(S, n) ==
    IF n = 0 THEN {<<>>}
    ELSE LET shorter == SeqsUpTo(S, n - 1)
         IN  shorter \cup {Append(s, c) : s \in {t \in shorter : Len(t) = n - 1}, c \in S}

Lines == SeqsUpTo(Atoms, MaxLineLen)

\* Names a command can be declared under: two identifiers and two dotted names.
Names == {<<"a">>, <<"a", "a">>, <<"a", ".", "a">>, <<"quit", ".", "a">>}

\* Python's None where a str is expected, the str class object, and None
\* where a click Command is expected.
NoneName == <<"None">>
StrClass == <<"<class 'str'>">>
NoneCmd == [id |-> 0, name |-> NoneName]

\* str.strip()
RECURSIVE lstrip(_)
lstrip(s) == IF s # <<>> /\ Head(s) = " " THEN lstrip(Tail(s)) ELSE s

RECURSIVE rstrip(_)
rstrip(s) ==
    IF s # <<>> /\ s[Len(s)] = " " THEN rstrip(SubSeq(s, 1, Len(s) - 1)) ELSE s

strip(s) == rstrip(lstrip(s))

\* shlex.split() of a str that holds no quote and no escape character.
RECURSIVE shlex_split_acc(_, _, _)
shlex_split_acc(s, cur, done) ==
    IF s = <<>> THEN (IF cur = <<>> THEN done ELSE Append(done, cur))
    ELSE IF Head(s) = " "
         THEN shlex_split_acc(Tail(s), <<>>, IF cur = <<>> THEN done ELSE Append(done, cur))
         ELSE shlex_split_acc(Tail(s), Append(cur, Head(s)), done)

shlex_split(s) == shlex_split_acc(s, <<>>, <<>>)

\* The argument vectors the one-shot mode can be started with.
Argvs == {shlex_split(l) : l \in Lines}

\* ------------------------------------------------------------------- state
VARIABLES
    commands,       \* click.Group.commands: name -> Command (NoneCmd: absent)
    default_cmd,    \* ClickGroupWithDefault._default_cmd
    ncmds,          \* number of Command objects created so far
    declared,       \* the declarations made, in order: <<Command, is_default>>
    pc,             \* where the program is: "idle" between operations
    args_in,        \* resolve_command: the tokens the caller passed
    args_list,      \* resolve_command: the caller's list object after the call
    ret,            \* resolve_command: what the call produced
    typed,          \* the line the user typed
    line,           \* the line onecmd/default is working on
    subst,          \* default substitutions made for the typed line
    hooked,         \* whether default() was entered for the typed line
    out             \* what handling the line produced

vars == <<commands, default_cmd, ncmds, declared, pc, args_in, args_list, ret,
          typed, line, subst, hooked, out>>

group == <<commands, default_cmd, ncmds, declared>>
call == <<args_in, args_list, ret>>
shell == <<typed, line, subst, hooked, out>>

NoRet == [kind |-> "none", exc |-> "", name |-> NoneName, cmd |-> NoneCmd, args |-> <<>>]
NoOut == [kind |-> "none", cmd |-> NoneCmd, args |-> <<>>, arg |-> <<>>, stop |-> FALSE]

\* ------------------------------------------------- ClickGroupWithDefault
\* click.Group.get_command: dict lookup, None when the name is not a key.
get_command(cmds, name) == IF name \in DOMAIN cmds THEN cmds[name] ELSE NoneCmd

\* click.Group.add_command, reached through the base command decorator:
\* commands[cmd.name] = cmd, replacing whatever the name was bound to.
add_command(cmds, cmd) == [cmds EXCEPT ![cmd.name] = cmd]

\* Mutant: the first default declared stays the default.
set_default_command_keep_first(cur, cmd) == IF cur = NoneCmd THEN cmd ELSE cur

set_default_command(cur, cmd) == cmd

default_cmd_name(dflt) == IF dflt # NoneCmd THEN dflt.name ELSE NoneName

\* click.Group.resolve_command, the base resolution that resolve_command
\* wraps: args[0] of an empty list raises IndexError, an unknown name makes
\* ctx.fail raise UsageError, a known one gives (name, command, args[1:]).
base_resolve_command(cmds, args) ==
    IF args = <<>>
    THEN [kind |-> "raise", exc |-> "IndexError", name |-> NoneName,
          cmd |-> NoneCmd, args |-> <<>>]
    ELSE IF get_command(cmds, Head(args)) = NoneCmd
    THEN [kind |-> "raise", exc |-> "UsageError", name |-> NoneName,
          cmd |-> NoneCmd, args |-> <<>>]
    ELSE [kind |-> "return", exc |-> "", name |-> Head(args),
          cmd |-> get_command(cmds, Head(args)), args |-> Tail(args)]

\* Mutant: the fallback hands the default command args[1:], as the base
\* resolution does for a named command.
resolve_command_drop_first(cmds, dflt, args) ==
    LET base == base_resolve_command(cmds, args)
    IN  IF base.kind = "return"
        THEN [ret |-> base, list |-> args]
        ELSE [ret |-> [kind |-> "return", exc |-> "", name |-> default_cmd_name(dflt),
                       cmd |-> dflt, args |-> IF args = <<>> THEN args ELSE Tail(args)],
              list |-> args]

\* Mutant: a configured default is chosen before the base resolution is tried.
resolve_command_default_first(cmds, dflt, args) ==
    LET base == base_resolve_command(cmds, args)
    IN  IF dflt # NoneCmd \/ base.kind = "raise"
        THEN [ret |-> [kind |-> "return", exc |-> "", name |-> default_cmd_name(dflt),
                       cmd |-> dflt, args |-> args],
              list |-> args]
        ELSE [ret |-> base, list |-> args]

\* Mutant: the fallback edits the caller's list in place,
\* args.insert(0, self.default_cmd_name), and resolves it again.
resolve_command_insert(cmds, dflt, args) ==
    LET base == base_resolve_command(cmds, args)
        edited == <<default_cmd_name(dflt)>> \o args
    IN  IF base.kind = "return"
        THEN [ret |-> base, list |-> args]
        ELSE [ret |-> [kind |-> "return", exc |-> "", name |-> default_cmd_name(dflt),
                       cmd |-> dflt, args |-> Tail(edited)],
              list |-> edited]

\* resolve_command: the pair of what the call produces and of the caller's
\* list object after it.  The local name args is rebound only when the base
\* resolution returns; the list the caller passed is never written to.
resolve_command(cmds, dflt, args) ==
    LET base == base_resolve_command(cmds, args)
    IN  IF base.kind = "return"
        THEN [ret |-> base, list |-> args]
        ELSE [ret |-> [kind |-> "return", exc |-> "", name |-> default_cmd_name(dflt),
                       cmd |-> dflt, args |-> args],
              list |-> args]

Init ==
    /\ commands = [n \in Names |-> NoneCmd]
    /\ default_cmd = NoneCmd
    /\ ncmds = 0
    /\ declared = <<>>
    /\ pc = "idle"
    /\ args_in = <<>>
    /\ args_list = <<>>
    /\ ret = NoRet
    /\ typed = <<>>
    /\ line = <<>>
    /\ subst = 0
    /\ hooked = FALSE
    /\ out = NoOut

\* @group.command(name, default=is_default) applied to a function.
command(name, is_default) ==
    /\ pc = "idle"
    /\ ncmds < MaxDecls
    /\ LET cmd == [id |-> ncmds + 1, name |-> name]
       IN  /\ commands' = add_command(commands, cmd)
           /\ default_cmd' = IF is_default THEN set_default_command(default_cmd, cmd)
                             ELSE default_cmd
           /\ declared' = Append(declared, <<cmd, is_default>>)
    /\ ncmds' = ncmds + 1
    /\ UNCHANGED <<pc, call, shell>>

\* One-shot mode: invoke() has the group resolve the argument vector.
Resolve(args) ==
    /\ pc = "idle"
    /\ LET r == resolve_command(commands, default_cmd, args)
       IN  /\ ret' = r.ret
           /\ args_list' = r.list
    /\ args_in' = args
    /\ pc' = "resolved"
    /\ UNCHANGED <<group, shell>>

\* invoke() runs what was resolved and returns; the call's locals are gone.
invoke ==
    /\ pc = "resolved"
    /\ pc' = "idle"
    /\ args_in' = <<>> /\ args_list' = <<>> /\ ret' = NoRet
    /\ UNCHANGED <<group, shell>>

\* ------------------------------------------------- ClickShellWithDefault
\* cmd.Cmd.parseline with click_shell's identchars (letters, digits, "_" and
\* "-"): the command is the longest prefix of the stripped line made of
\* identifier characters, the argument is the stripped rest.
RECURSIVE ident_prefix_len(_)
ident_prefix_len(s) ==
    IF s # <<>> /\ Head(s) \in IdentAtoms THEN 1 + ident_prefix_len(Tail(s)) ELSE 0

parseline(l) ==
    LET stripped == strip(l)
        i == ident_prefix_len(stripped)
    IN  IF stripped = <<>>
        THEN [cmd |-> NoneName, arg |-> NoneName, line |-> stripped]
        ELSE [cmd |-> SubSeq(stripped, 1, i),
              arg |-> strip(SubSeq(stripped, i + 1, Len(stripped))),
              line |-> stripped]

\* The do_<name> methods of the base loop itself.
Builtins == {<<"help">>, <<"quit">>, <<"exit">>}

\* getattr(self, "do_" + cmd): the lines the loop can match to a command.
has_do(cmds, cmd) == get_command(cmds, cmd) # NoneCmd \/ cmd \in Builtins

\* func(arg) for a matched command: a registered command runs on
\* shlex.split(arg) and its wrapper always returns False; quit and exit
\* return True, help returns None.
call_do(cmds, cmd, arg) ==
    IF get_command(cmds, cmd) # NoneCmd
    THEN [kind |-> "run", cmd |-> get_command(cmds, cmd), args |-> shlex_split(arg),
          arg |-> <<>>, stop |-> FALSE]
    ELSE [kind |-> "builtin", cmd |-> NoneCmd, args |-> <<>>, arg |-> cmd,
          stop |-> cmd \in {<<"quit">>, <<"exit">>}]

\* f"{default_cmd_name} {line}"
alternative_cmd(name, l) == name \o <<" ">> \o l

\* The base loop's unmatched-line handling: reports what it was given and
\* returns None.
base_default(given) ==
    [kind |-> "nocommand", cmd |-> NoneCmd, args |-> <<>>, arg |-> given, stop |-> FALSE]

\* cmdloop reads a line; precmd hands it on unchanged.
precmd(l) ==
    /\ pc = "idle"
    /\ typed' = l
    /\ line' = l
    /\ pc' = "onecmd"
    /\ UNCHANGED <<group, call, subst, hooked, out>>

\* onecmd(line): an empty line is dropped, a line whose command prefix has a
\* do_ method runs it, any other line goes to default().
onecmd ==
    /\ pc = "onecmd"
    /\ LET p == parseline(line)
       IN  IF p.line = <<>>
           THEN /\ out' = [kind |-> "empty", cmd |-> NoneCmd, args |-> <<>>,
                           arg |-> <<>>, stop |-> FALSE]
                /\ pc' = "postcmd"
                /\ line' = line
           ELSE IF p.cmd = <<>> \/ ~has_do(commands, p.cmd)
           THEN /\ out' = out
                /\ pc' = "default"
                /\ line' = p.line
           ELSE /\ out' = call_do(commands, p.cmd, p.arg)
                /\ pc' = "postcmd"
                /\ line' = line
    /\ UNCHANGED <<group, call, typed, subst, hooked>>

\* default(line): with a default command name, onecmd runs on the prefixed
\* line, one Python call deeper (RecursionError once the interpreter's stack
\* is used up, which nothing in the loop catches); without one, the base
\* handler is called with the str class.
default ==
    /\ pc = "default"
    /\ hooked' = TRUE
    /\ LET name == default_cmd_name(default_cmd)
       IN  IF name # NoneName /\ name # <<>>
           THEN IF subst < MaxRecursion
                THEN /\ line' = alternative_cmd(name, line)
                     /\ subst' = subst + 1
                     /\ pc' = "onecmd"
                     /\ out' = out
                ELSE /\ out' = [kind |-> "raise", cmd |-> NoneCmd, args |-> <<>>,
                                arg |-> <<>>, stop |-> FALSE]
                     /\ pc' = "raised"
                     /\ UNCHANGED <<line, subst>>
           ELSE /\ out' = base_default(StrClass)
                /\ pc' = "postcmd"
                /\ UNCHANGED <<line, subst>>
    /\ UNCHANGED <<group, call, typed>>

\* postcmd(stop, line) ends the handling of the line: the loop prompts again,
\* or returns when stop is true.
postcmd ==
    /\ pc = "postcmd"
    /\ pc' = "idle"
    /\ typed' = <<>> /\ line' = <<>> /\ subst' = 0 /\ hooked' = FALSE /\ out' = NoOut
    /\ UNCHANGED <<group, call>>

Next ==
    \/ \E n \in Names, d \in BOOLEAN : command(n, d)
    \/ \E a \in Argvs : Resolve(a)
    \/ invoke
    \/ \E l \in Lines : precmd(l)
    \/ onecmd
    \/ default
    \/ postcmd

Spec == Init /\ [][Next]_vars

\* ------------------------------------------------------------------ claims
\* The call resolve_command just made, seen from the state it returned in.
Unmatched == args_in # <<>> /\ get_command(commands, Head(args_in)) = NoneCmd
Matched == args_in # <<>> /\ get_command(commands, Head(args_in)) # NoneCmd

\* C1: when the first token names no registered command and a default
\* command D is configured, resolve_command returns (D.name, D, T) with T the
\* whole token sequence that was passed.
C1_DefaultGetsWholeInput ==
    (pc = "resolved" /\ Unmatched /\ default_cmd # NoneCmd)
        => ret = [kind |-> "return", exc |-> "", name |-> default_cmd.name,
                  cmd |-> default_cmd, args |-> args_in]

C1_Witness ==
    /\ pc = "resolved" /\ Unmatched /\ default_cmd # NoneCmd
    /\ Len(args_in) >= 2
    /\ ret.cmd = default_cmd /\ ret.args = args_in

\* C2: with no default command configured, resolve_command on tokens the
\* base resolution cannot match raises the failure the base resolution
\* raised, and returns no triple.
C2_FailurePropagates ==
    (pc = "resolved" /\ Unmatched /\ default_cmd = NoneCmd
        /\ base_resolve_command(commands, args_in).kind = "raise")
        => (ret.kind = "raise" /\ ret.exc = base_resolve_command(commands, args_in).exc)

\* C3: when the first token names a registered command C, resolve_command
\* returns (C.name, C, T without its first token), default configured or not.
C3_NamedCommandWins ==
    (pc = "resolved" /\ Matched)
        => LET C == get_command(commands, Head(args_in))
           IN  ret = [kind |-> "return", exc |-> "", name |-> C.name, cmd |-> C,
                      args |-> Tail(args_in)]

C3_Witness ==
    /\ pc = "resolved" /\ Matched
    /\ default_cmd # NoneCmd
    /\ default_cmd # get_command(commands, Head(args_in))
    /\ ret.cmd = get_command(commands, Head(args_in))
    /\ ret.args # <<>>

\* C4: an unmatched line L handled through default() with default command D
\* selects the command and the argument tokens that resolving
\* [D.name] + tokenize(L) selects, and the command that resolving
\* tokenize(L) selects in the one-shot mode.
C4_LoopAgreesWithDispatcher ==
    (pc \in {"postcmd", "raised"} /\ hooked /\ default_cmd # NoneCmd)
        => LET direct == resolve_command(commands, default_cmd,
                             <<default_cmd.name>> \o shlex_split(typed)).ret
               oneshot == resolve_command(commands, default_cmd, shlex_split(typed)).ret
           IN  /\ out.kind = "run"
               /\ out.cmd = direct.cmd
               /\ out.args = direct.args
               /\ out.cmd = oneshot.cmd

\* The default-flagged declaration made last, None when there is none.
RECURSIVE LastDefault(_)
LastDefault(ds) ==
    IF ds = <<>> THEN NoneCmd
    ELSE IF ds[Len(ds)][2] THEN ds[Len(ds)][1]
    ELSE LastDefault(SubSeq(ds, 1, Len(ds) - 1))

\* C5: the default is the command of the most recent declaration flagged
\* default (declarations without the flag leave it alone), and unmatched
\* input resolves to that command.
C5_LastDefaultWins ==
    /\ default_cmd = LastDefault(declared)
    /\ (pc = "resolved" /\ Unmatched /\ LastDefault(declared) # NoneCmd)
          => ret.cmd = LastDefault(declared)

C5_Witness ==
    /\ Len(declared) >= 2
    /\ declared[1][2] /\ declared[2][2]
    /\ declared[1][1].name # declared[2][1].name
    /\ pc = "resolved" /\ Unmatched
    /\ ret.cmd = declared[2][1]

\* C6: with no default command configured, default(line) hands the base
\* loop's unmatched-line handler the line it was called with.
C6_BaseHandlerGetsLine ==
    (pc = "postcmd" /\ hooked /\ default_cmd = NoneCmd)
        => (out.kind = "nocommand" /\ out.arg = line)

\* C7: handling one line makes at most one default substitution and ends
\* without exhausting the call stack.
C7_AtMostOneSubstitution == subst <= 1 /\ pc # "raised"

\* C8: what default(line) returns to the loop is never a stop signal.
C8_HookNeverStops == (pc = "postcmd" /\ hooked) => ~out.stop

\* C9: the default pointer is unset or is the Command the mapping holds
\* under that command's name.
C9_DefaultIsRegistered ==
    default_cmd = NoneCmd \/ get_command(commands, default_cmd.name) = default_cmd

\* C10: resolve_command leaves the caller's token list, the registry and the
\* default pointer as they were.
C10_ResolveReadOnly ==
    [][pc' = "resolved" =>
          /\ args_list' = args_in'
          /\ commands' = commands
          /\ default_cmd' = default_cmd]_vars

C10_Witness ==
    /\ pc = "resolved" /\ Unmatched /\ default_cmd # NoneCmd
    /\ ret.cmd = default_cmd
    /\ args_list = args_in /\ Len(args_list) = 2

====
